---- MODULE Spec2Model ----
(***************************************************************************)
(* Model of spawn_capture.py: the RSFCApp window.                          *)
(*                                                                         *)
(* Two threads of the program act on the window object:                    *)
(*   - the Qt GUI thread runs app.exec_(): it takes one queued button      *)
(*     click at a time and runs its slot (spawn_robot, capture_frame) to   *)
(*     completion before it takes the next one;                            *)
(*   - the rospy subscriber thread runs update_camera_feed once per        *)
(*     inbound image message.                                              *)
(* The environment is the operator pressing buttons, the wall clock, the   *)
(* /gazebo/set_model_state service and the camera publisher.               *)
(*                                                                         *)
(* update_camera_feed is one atomic action: line 77-79 work on locals,     *)
(* line 80 is the single store into current_frame, and line 81 writes the  *)
(* preview widget, which nothing else in the program reads or writes.      *)
(* QPixmap use outside the GUI thread (line 81) is unsupported by Qt; an   *)
(* abort there is the program stopping, which every behaviour of Spec      *)
(* already allows (stuttering).                                            *)
(***************************************************************************)
EXTENDS Integers, Sequences, FiniteSets, TLC

\* ---------------------------------------------------------------- bounds
MaxQueue == 2          \* clicks that can wait in the Qt event queue
MaxClock == 3          \* last clock tick explored
TicksPerSecond == 2    \* sub-second resolution of datetime.now() in the model
MaxCoord == 2          \* the spin boxes hold -1, 0 or MaxCoord
MaxW == 2              \* image widths 1..MaxW
MaxH == 2              \* image heights 1..MaxH

\* ------------------------------------------------------------- constants
None == [kind |-> "None"]

SpawnButton == "spawn_button"
CaptureButton == "capture_button"
Buttons == {SpawnButton, CaptureButton}

Coords == {-1, 0, MaxCoord}

Encodings == {"bgr8", "rgb8"}

\* Text of the status field before any capture (set by spawn_capture.ui).
UiDefaultText == <<"">>

\* ------------------------------------------------------- pure functions

\* BuildRequest with the sign of y left as read.
BuildRequestYNotInverted(coordinate_x, coordinate_y, coordinate_z, orientation_z, orientation_w) ==
  [model_name |-> "R1",
   position |-> [x |-> coordinate_x * (-1),
                 y |-> coordinate_y,
                 z |-> coordinate_z],
   orientation |-> [x |-> 0, y |-> 0, z |-> orientation_z, w |-> orientation_w]]

\* Lines 55-63: the SetModelStateRequest built from the five spin boxes.
BuildRequest(coordinate_x, coordinate_y, coordinate_z, orientation_z, orientation_w) ==
  [model_name |-> "R1",
   position |-> [x |-> coordinate_x * (-1),
                 y |-> coordinate_y * (-1),
                 z |-> coordinate_z],
   orientation |-> [x |-> 0, y |-> 0, z |-> orientation_z, w |-> orientation_w]]

\* A camera message: a dense buffer of 3*width*height bytes. The byte at 0-based
\* index i is 10 + i, so every byte of a buffer is different from the others.
PatternByte(i) == (10 + i) % 256

ImageMsg(encoding, width, height) ==
  [kind |-> "Image", encoding |-> encoding, width |-> width, height |-> height,
   data |-> [i \in 1..(3 * width * height) |-> PatternByte(i - 1)]]

ImageMsgs ==
  {ImageMsg(e, w, h) : e \in Encodings, w \in 1..MaxW, h \in 1..MaxH}

\* The messages and the spin-box values used where the three operations are
\* interleaved (Spec); SpecFeed and SpecPose draw from the whole sets.
ImageSamples == {ImageMsg(e, MaxW, MaxH) : e \in Encodings} \cup {ImageMsg("bgr8", 1, 1)}

PoseInputs == Coords \X Coords \X Coords \X Coords \X Coords

PoseSamples == {<<MaxCoord, -1, MaxCoord, -1, MaxCoord>>, <<-1, MaxCoord, -1, MaxCoord, -1>>}

\* Line 77: CvBridge.imgmsg_to_cv2(data, "bgr8"): an array of shape
\* (height, width, 3) in BGR order; an rgb8 message has channels 0 and 2 of
\* every pixel exchanged, a bgr8 message is taken as it is.
ImgmsgToCv2(data) ==
  [shape |-> <<data.height, data.width, 3>>,
   data |-> [i \in 1..(3 * data.width * data.height) |->
               IF data.encoding = "bgr8"
                 THEN data.data[i]
                 ELSE LET ch == (i - 1) % 3
                      IN  data.data[i - ch + (2 - ch)]]]

\* Line 79.
BytesPerLine(width) == 3 * width

\* Line 80, QImage(buf, width, height, bytes_per_line, Format_RGB888): pixel
\* (r, c) takes the bytes at r*bytes_per_line + 3*c + 0,1,2 as red, green, blue.
QImageRGB888(buf, width, height, bytes_per_line) ==
  [kind |-> "QImage", width |-> width, height |-> height,
   px |-> [rc \in (0..(height - 1)) \X (0..(width - 1)) |->
             LET off == rc[1] * bytes_per_line + 3 * rc[2]
             IN  [red |-> buf[off + 1], green |-> buf[off + 2], blue |-> buf[off + 3]]]]

\* RgbSwapped left out: the image as it is.
RgbNotSwapped(img) == img

\* Line 80, QImage.rgbSwapped(): red and blue of every pixel exchanged.
RgbSwapped(img) ==
  [img EXCEPT !.px = [rc \in DOMAIN img.px |->
                        [red |-> img.px[rc].blue,
                         green |-> img.px[rc].green,
                         blue |-> img.px[rc].red]]]

\* NewCurrentFrame that fills the slot once and then keeps what it holds.
NewCurrentFrameKeepFirst(old, data) ==
  IF old # None
    THEN old
    ELSE RgbSwapped(QImageRGB888(ImgmsgToCv2(data).data, data.width, data.height,
                                 BytesPerLine(data.width)))

\* NewCurrentFrame that empties the slot on a message that is not bgr8.
NewCurrentFrameBgrOnly(old, data) ==
  IF data.encoding # "bgr8"
    THEN None
    ELSE RgbSwapped(QImageRGB888(ImgmsgToCv2(data).data, data.width, data.height,
                                 BytesPerLine(data.width)))

\* Lines 77-80: the value update_camera_feed stores into self.current_frame.
\* The old value of the slot plays no part.
NewCurrentFrame(old, data) ==
  LET cv_image == ImgmsgToCv2(data)
      height == cv_image.shape[1]
      width == cv_image.shape[2]
  IN  RgbSwapped(QImageRGB888(cv_image.data, width, height, BytesPerLine(width)))

\* Truthy with the test of line 89 always passing.
TruthyAlways(frame) == TRUE

\* Line 89: truth value of self.current_frame (None is false, a QImage is true).
Truthy(frame) == frame # None

\* NeedsMakedirs with the test of line 93 inverted.
NeedsMakedirsInverted(exists) == exists

\* Line 93: os.makedirs is called when the folder does not exist.
NeedsMakedirs(exists) == ~exists

\* Strftime that keeps the sub-second part.
StrftimeSubSecond(t) == t

\* Line 99: now.strftime("%Y-%m-%d_%H:%M:%S") keeps whole seconds only.
Strftime(t) == t \div TicksPerSecond

\* ScreenshotPath with a fixed file name.
ScreenshotPathNoStamp(ts) == <<"screenshots", <<"camera_feed_screenshot_", 0, ".png">>>>

\* Line 101: os.path.join("screenshots", f"camera_feed_screenshot_{timestamp}.png").
ScreenshotPath(ts) == <<"screenshots", <<"camera_feed_screenshot_", ts, ".png">>>>

\* Line 102: the PNG encoding of an image (lossless).
Png(frame) == [format |-> "PNG", image |-> frame]

\* Line 105 and line 108: the two texts capture_frame writes.
SavedText(ts) == <<"Screenshot saved at ", ts, " in 'pwd/", "screenshots", "'">>
NoFrameText == <<"No screenshot captured. Camera feed might be empty.">>

\* The file system after writing `content` at `path`.
WriteFile(fs, path, content) ==
  [p \in (DOMAIN fs) \cup {path} |-> IF p = path THEN content ELSE fs[p]]

\* CanDispatch of a GUI that also takes clicks while a service call blocks.
CanDispatchReentrant(pc) == pc \in {"idle", "call"}

\* Lines 34-35, 128: a slot runs when the GUI thread is back in the event loop.
CanDispatch(pc) == pc = "idle"

\* ------------------------------------------------------------------ state
VARIABLES
  events,                \* clicked signals waiting in the Qt event queue
  gui_pc,                \* where the GUI thread is
  coords,                \* spawn_robot: the five values read at lines 49-53
  msg,                   \* spawn_robot: the request built at lines 55-63
  inflight,              \* requests sent to the service and not yet answered
  service_up,            \* /gazebo/set_model_state is advertised
  rosout,                \* errors logged by rospy.logerr
  current_frame,         \* self.current_frame
  camera_feed,           \* pixmap of the preview label
  last_image,            \* argument of the last update_camera_feed call
  clock,                 \* wall clock, in ticks
  now,                   \* capture_frame: datetime.now() of line 97 (0 outside a capture)
  timestamp,             \* capture_frame: the string of line 99 (0 outside a capture)
  dir_exists,            \* the folder screenshots exists
  files,                 \* files under screenshots: path -> content
  capture_frame_output   \* text of the status field

vars == <<events, gui_pc, coords, msg, inflight, service_up, rosout,
          current_frame, camera_feed, last_image, clock, now, timestamp,
          dir_exists, files, capture_frame_output>>

spawnVars == <<coords, msg, inflight, rosout>>
frameVars == <<current_frame, camera_feed, last_image>>
captureVars == <<now, timestamp, dir_exists, files, capture_frame_output>>

\* Lines 19-41, and the world the program starts in: the folder may or may
\* not be there, the service may or may not be up.
Init ==
  /\ events = <<>>
  /\ gui_pc = "idle"
  /\ coords = None
  /\ msg = None
  /\ inflight = <<>>
  /\ service_up \in BOOLEAN
  /\ rosout = {}
  /\ current_frame = None
  /\ camera_feed = None
  /\ last_image = None
  /\ clock = 0
  /\ now = 0
  /\ timestamp = 0
  /\ dir_exists \in BOOLEAN
  /\ files = <<>>
  /\ capture_frame_output = UiDefaultText

\* ------------------------------------------------------------ environment

\* The operator clicks a button; the click waits until the GUI thread is idle.
Press(b) ==
  /\ Len(events) < MaxQueue
  /\ events' = Append(events, b)
  /\ UNCHANGED <<gui_pc, service_up, clock>>
  /\ UNCHANGED <<spawnVars, frameVars, captureVars>>

Tick ==
  /\ clock < MaxClock
  /\ clock' = clock + 1
  /\ UNCHANGED <<events, gui_pc, service_up>>
  /\ UNCHANGED <<spawnVars, frameVars, captureVars>>

ServiceStart ==
  /\ ~service_up
  /\ service_up' = TRUE
  /\ UNCHANGED <<events, gui_pc, clock>>
  /\ UNCHANGED <<spawnVars, frameVars, captureVars>>

ServiceStop ==
  /\ service_up
  /\ service_up' = FALSE
  /\ UNCHANGED <<events, gui_pc, clock>>
  /\ UNCHANGED <<spawnVars, frameVars, captureVars>>

\* ------------------------------------------- subscriber thread, lines 72-81
update_camera_feed(data) ==
  /\ current_frame' = NewCurrentFrame(current_frame, data)
  /\ camera_feed' = current_frame'
  /\ last_image' = data
  /\ UNCHANGED <<events, gui_pc, service_up, clock>>
  /\ UNCHANGED <<spawnVars, captureVars>>

\* ------------------------------------------ GUI thread: spawn_robot, 43-70

\* Lines 49-63: the slot starts, reads the spin boxes and builds the request.
SpawnBegin(x, y, z, oz, ow) ==
  /\ CanDispatch(gui_pc)
  /\ events # <<>> /\ Head(events) = SpawnButton
  /\ events' = Tail(events)
  /\ coords' = [coordinate_x |-> x, coordinate_y |-> y, coordinate_z |-> z,
                orientation_z |-> oz, orientation_w |-> ow]
  /\ msg' = BuildRequest(x, y, z, oz, ow)
  /\ gui_pc' = "wait_for_service"
  /\ UNCHANGED <<inflight, rosout, service_up, clock>>
  /\ UNCHANGED <<frameVars, captureVars>>

\* Lines 66-68: wait_for_service has no timeout, so it returns only once the
\* service is advertised; then the proxy sends the request.
WaitForService ==
  /\ gui_pc = "wait_for_service"
  /\ service_up
  /\ inflight' = Append(inflight, msg)
  /\ gui_pc' = "call"
  /\ UNCHANGED <<events, coords, msg, rosout, service_up, clock>>
  /\ UNCHANGED <<frameVars, captureVars>>

\* Line 68: the service answers; the response is dropped and the slot returns.
CallReturns ==
  /\ gui_pc = "call"
  /\ inflight # <<>>
  /\ service_up
  /\ inflight' = Tail(inflight)
  /\ coords' = None
  /\ msg' = None
  /\ gui_pc' = "idle"
  /\ UNCHANGED <<events, rosout, service_up, clock>>
  /\ UNCHANGED <<frameVars, captureVars>>

\* Line 68: the call fails (the service went away or rejected the request)
\* and raises rospy.ServiceException.
CallRaises ==
  /\ gui_pc = "call"
  /\ inflight # <<>>
  /\ inflight' = Tail(inflight)
  /\ gui_pc' = "except"
  /\ UNCHANGED <<events, coords, msg, rosout, service_up, clock>>
  /\ UNCHANGED <<frameVars, captureVars>>

\* Lines 69-70: the exception is logged and the slot returns.
LogErr ==
  /\ gui_pc = "except"
  /\ rosout' = rosout \cup {"ServiceException"}
  /\ coords' = None
  /\ msg' = None
  /\ gui_pc' = "idle"
  /\ UNCHANGED <<events, inflight, service_up, clock>>
  /\ UNCHANGED <<frameVars, captureVars>>

\* --------------------------------------- GUI thread: capture_frame, 83-108

\* Line 89: the slot starts and tests self.current_frame.
CaptureBegin ==
  /\ CanDispatch(gui_pc)
  /\ events # <<>> /\ Head(events) = CaptureButton
  /\ events' = Tail(events)
  /\ gui_pc' = IF Truthy(current_frame) THEN "exists" ELSE "else"
  /\ UNCHANGED <<service_up, clock>>
  /\ UNCHANGED <<spawnVars, frameVars, captureVars>>

\* Line 93: os.path.exists(folder_path).
CheckDir ==
  /\ gui_pc = "exists"
  /\ gui_pc' = IF NeedsMakedirs(dir_exists) THEN "makedirs" ELSE "now"
  /\ UNCHANGED <<events, service_up, clock>>
  /\ UNCHANGED <<spawnVars, frameVars, captureVars>>

\* Line 94: os.makedirs(folder_path).
Makedirs ==
  /\ gui_pc = "makedirs"
  /\ dir_exists' = TRUE
  /\ gui_pc' = "now"
  /\ UNCHANGED <<events, service_up, clock>>
  /\ UNCHANGED <<now, timestamp, files, capture_frame_output>>
  /\ UNCHANGED <<spawnVars, frameVars>>

\* Lines 97-101: the time is read and formatted.
ReadClock ==
  /\ gui_pc = "now"
  /\ now' = clock
  /\ timestamp' = Strftime(clock)
  /\ gui_pc' = "save"
  /\ UNCHANGED <<events, service_up, clock>>
  /\ UNCHANGED <<dir_exists, files, capture_frame_output>>
  /\ UNCHANGED <<spawnVars, frameVars>>

\* Line 102: self.current_frame.save(screenshot_path, "PNG"). QImage.save
\* writes nothing (and returns False, which is ignored) when the folder is
\* missing.
Save ==
  /\ gui_pc = "save"
  /\ files' = IF dir_exists
                THEN WriteFile(files, ScreenshotPath(timestamp), Png(current_frame))
                ELSE files
  /\ gui_pc' = "setText"
  /\ UNCHANGED <<events, service_up, clock>>
  /\ UNCHANGED <<now, timestamp, dir_exists, capture_frame_output>>
  /\ UNCHANGED <<spawnVars, frameVars>>

\* Line 105: the success text; the slot returns.
SetSavedText ==
  /\ gui_pc = "setText"
  /\ capture_frame_output' = SavedText(timestamp)
  /\ now' = 0
  /\ timestamp' = 0
  /\ gui_pc' = "idle"
  /\ UNCHANGED <<events, service_up, clock>>
  /\ UNCHANGED <<dir_exists, files>>
  /\ UNCHANGED <<spawnVars, frameVars>>

\* Line 108: the no-frame text; the slot returns.
SetNoFrameText ==
  /\ gui_pc = "else"
  /\ capture_frame_output' = NoFrameText
  /\ gui_pc' = "idle"
  /\ UNCHANGED <<events, service_up, clock>>
  /\ UNCHANGED <<now, timestamp, dir_exists, files>>
  /\ UNCHANGED <<spawnVars, frameVars>>

\* ------------------------------------------------------------------- spec

\* The steps of the GUI thread that need nothing from outside the process.
GuiStep ==
  \/ \E t \in PoseSamples : SpawnBegin(t[1], t[2], t[3], t[4], t[5])
  \/ WaitForService
  \/ LogErr
  \/ CaptureBegin
  \/ CheckDir
  \/ Makedirs
  \/ ReadClock
  \/ Save
  \/ SetSavedText
  \/ SetNoFrameText

\* The answer of the service to a call in flight.
ServiceAnswer == CallReturns \/ CallRaises

\* The whole program with its environment.
Next ==
  \/ \E b \in Buttons : Press(b)
  \/ Tick
  \/ ServiceStart
  \/ ServiceStop
  \/ \E data \in ImageSamples : update_camera_feed(data)
  \/ \E t \in PoseSamples : SpawnBegin(t[1], t[2], t[3], t[4], t[5])
  \/ WaitForService
  \/ CallReturns
  \/ CallRaises
  \/ LogErr
  \/ CaptureBegin
  \/ CheckDir
  \/ Makedirs
  \/ ReadClock
  \/ Save
  \/ SetSavedText
  \/ SetNoFrameText

Spec == Init /\ [][Next]_vars

\* The GUI thread keeps running whenever it can take a step (also when the
\* step is enabled again and again only), and the service answers every call.
FairSpec == Spec /\ SF_vars(GuiStep) /\ WF_vars(ServiceAnswer)

\* The spawn button alone, over every combination of spin-box values.
NextPose ==
  \/ Press(SpawnButton)
  \/ ServiceStart
  \/ ServiceStop
  \/ \E t \in PoseInputs : SpawnBegin(t[1], t[2], t[3], t[4], t[5])
  \/ WaitForService
  \/ CallReturns
  \/ CallRaises
  \/ LogErr

SpecPose == Init /\ [][NextPose]_vars

\* The camera feed and the capture button, over every message.
NextFeed ==
  \/ Press(CaptureButton)
  \/ \E data \in ImageMsgs : update_camera_feed(data)
  \/ CaptureBegin
  \/ CheckDir
  \/ Makedirs
  \/ ReadClock
  \/ Save
  \/ SetSavedText
  \/ SetNoFrameText

SpecFeed == Init /\ [][NextFeed]_vars

\* ----------------------------------------------------------------- claims

\* C1: for every combination of the five spin-box values, the request built
\* by spawn_robot (and the one sent to the service) has position.x = -x,
\* position.y = -y, position.z = z, orientation.x = 0, orientation.y = 0,
\* orientation.z = orientation-z, orientation.w = orientation-w and model
\* name 'R1'.
C1_PoseRequest ==
  /\ msg # None =>
        /\ msg.model_name = "R1"
        /\ msg.position.x = 0 - coords.coordinate_x
        /\ msg.position.y = 0 - coords.coordinate_y
        /\ msg.position.z = coords.coordinate_z
        /\ msg.orientation.x = 0
        /\ msg.orientation.y = 0
        /\ msg.orientation.z = coords.orientation_z
        /\ msg.orientation.w = coords.orientation_w
  /\ \A i \in 1..Len(inflight) : gui_pc = "call" => inflight[i] = msg

\* A request is in flight for x = MaxCoord, y = -1: it carries -MaxCoord and 1.
C1_Witness ==
  /\ gui_pc = "call"
  /\ Len(inflight) = 1
  /\ coords.coordinate_x = MaxCoord
  /\ coords.coordinate_y = -1
  /\ coords.coordinate_z = MaxCoord
  /\ coords.orientation_z = -1
  /\ coords.orientation_w = MaxCoord
  /\ inflight[1].position = [x |-> 0 - MaxCoord, y |-> 1, z |-> MaxCoord]
  /\ inflight[1].orientation = [x |-> 0, y |-> 0, z |-> -1, w |-> MaxCoord]

\* C9: for a bgr8 message of width W and height H, the stored bitmap has W
\* columns and H rows and, at every row r < H and column c < W, the three
\* bytes of the buffer at offset 3*(r*W + c) in reversed order (B,G,R in the
\* buffer, R,G,B in the bitmap); no pixel moves.
C9_ChannelsReversed ==
  (last_image # None /\ last_image.encoding = "bgr8") =>
    /\ current_frame.width = last_image.width
    /\ current_frame.height = last_image.height
    /\ DOMAIN current_frame.px = (0..(last_image.height - 1)) \X (0..(last_image.width - 1))
    /\ \A r \in 0..(last_image.height - 1), c \in 0..(last_image.width - 1) :
         LET off == 3 * (r * last_image.width + c)
             p == current_frame.px[<<r, c>>]
         IN  <<p.red, p.green, p.blue>> =
               <<last_image.data[off + 3], last_image.data[off + 2], last_image.data[off + 1]>>

\* The largest bgr8 message is stored: its last pixel holds the last three
\* bytes of the buffer, reversed.
C9_Witness ==
  /\ last_image = ImageMsg("bgr8", MaxW, MaxH)
  /\ current_frame # None
  /\ LET n == 3 * MaxW * MaxH
     IN  current_frame.px[<<MaxH - 1, MaxW - 1>>] =
           [red |-> PatternByte(n - 1), green |-> PatternByte(n - 2), blue |-> PatternByte(n - 3)]

\* What the claims below call a capture's steps.
CaptureChecked == gui_pc \in {"exists", "makedirs", "now", "save"}
SaveStep == gui_pc = "save" /\ gui_pc' = "setText"
SavedTextStep == gui_pc = "setText" /\ gui_pc' = "idle"
SecondOf(t) == t \div TicksPerSecond
ScreenshotOf(second) == <<"screenshots", <<"camera_feed_screenshot_", second, ".png">>>>
SavedAt(second) == <<"Screenshot saved at ", second, " in 'pwd/", "screenshots", "'">>

\* C2: the slot holds exactly the frame of the most recently delivered
\* message (every update_camera_feed call overwrites it), and the file a
\* capture writes is that frame as it is when line 102 runs; no other file
\* is touched, so no older frame is written by a later capture.
C2_LatestFrameSaved ==
  /\ [](current_frame = IF last_image = None THEN None
                                             ELSE NewCurrentFrame(None, last_image))
  /\ [][SaveStep =>
          /\ ScreenshotPath(timestamp) \in DOMAIN files'
          /\ files'[ScreenshotPath(timestamp)] = Png(NewCurrentFrame(None, last_image))
          /\ \A p \in DOMAIN files' \ {ScreenshotPath(timestamp)} :
                p \in DOMAIN files /\ files'[p] = files[p]]_vars

\* A capture has just written the frame of the rgb8 message while an older
\* screenshot holds a different frame.
C2_Witness ==
  /\ gui_pc = "setText"
  /\ last_image = ImageMsg("rgb8", MaxW, MaxH)
  /\ files[ScreenshotPath(timestamp)] = Png(current_frame)
  /\ \E p \in DOMAIN files : files[p] # Png(current_frame)

\* C3: a capture invoked while the slot is empty takes the else branch,
\* touches neither the folder nor any file, does not fill the slot itself,
\* and ends by setting the status field to the fixed no-frame text.
C3_NoFrameNoIO ==
  [][/\ (/\ gui_pc = "idle" /\ gui_pc' # "idle"
         /\ events # <<>> /\ Head(events) = CaptureButton
         /\ current_frame = None)
        => /\ gui_pc' = "else"
           /\ UNCHANGED <<dir_exists, files, capture_frame_output, current_frame>>
     /\ gui_pc = "else" => UNCHANGED <<dir_exists, files>>
     /\ (gui_pc = "else" /\ gui_pc' # "else")
        => /\ gui_pc' = "idle"
           /\ capture_frame_output' = NoFrameText
           /\ current_frame' = current_frame]_vars

\* A capture without a frame has finished: no folder, no file, the fixed text.
C3_Witness ==
  /\ gui_pc = "idle"
  /\ capture_frame_output = <<"No screenshot captured. Camera feed might be empty.">>
  /\ current_frame = None
  /\ ~dir_exists
  /\ files = <<>>

\* C7: with a frame present, the folder is created when it is absent and
\* only then; the time is read and the file is written with the folder in
\* place, and the write happens in both cases.
C7_DirectoryBeforeWrite ==
  /\ gui_pc = "makedirs" => ~dir_exists
  /\ gui_pc \in {"now", "save", "setText"} => dir_exists
  /\ gui_pc = "setText" => ScreenshotOf(timestamp) \in DOMAIN files
  /\ files # <<>> => dir_exists

\* A capture has written its file into the folder.
C7_Witness ==
  /\ gui_pc = "setText"
  /\ dir_exists
  /\ DOMAIN files = {ScreenshotOf(timestamp)}
  /\ capture_frame_output = UiDefaultText

\* C10: once the slot holds a frame it holds one for ever, so a capture that
\* passed the test of line 89 reaches the save of line 102 with a frame,
\* whatever the subscriber thread does in between.
C10_FrameStaysPresent ==
  /\ [][current_frame # None => current_frame' # None]_vars
  /\ [](CaptureChecked => current_frame # None)

\* A capture is about to save a frame that an rgb8 message delivered.
C10_Witness ==
  /\ gui_pc = "save"
  /\ last_image # None
  /\ last_image.encoding = "rgb8"
  /\ current_frame # None

\* What capture_frame does with a frame present, whether or not the file is
\* new: the timestamp is the second of the clock read at line 97, the save
\* writes the frame at the path named with it, and the status text carries
\* the same timestamp.
C4_NamedAndReported ==
  /\ (gui_pc = "now" /\ gui_pc' = "save") => timestamp' = SecondOf(clock)
  /\ SaveStep =>
       /\ current_frame # None
       /\ DOMAIN files' = DOMAIN files \cup {ScreenshotOf(timestamp)}
       /\ files'[ScreenshotOf(timestamp)] = Png(current_frame)
       /\ \A p \in DOMAIN files \ {ScreenshotOf(timestamp)} : files'[p] = files[p]
  /\ SavedTextStep =>
       /\ capture_frame_output' = SavedAt(timestamp)
       /\ ScreenshotOf(timestamp) \in DOMAIN files
       /\ files' = files

\* C4 (as stated): a capture with a frame present produces exactly one new
\* PNG file under screenshots/, named with the current second, and the
\* status field carries that timestamp.
C4_ExactlyOneNewFile ==
  [][/\ C4_NamedAndReported
     /\ SaveStep => Cardinality(DOMAIN files') = Cardinality(DOMAIN files) + 1]_vars

\* C4 (amended): a capture with a frame present writes exactly one PNG file
\* under screenshots/, named with the current second, and the status field
\* carries that timestamp; the file is new unless a screenshot of the same
\* second exists, which is then overwritten and no file is added.
C4_OneFileWritten ==
  [][/\ C4_NamedAndReported
     /\ SaveStep =>
          Cardinality(DOMAIN files') =
            Cardinality(DOMAIN files)
              + (IF ScreenshotOf(timestamp) \in DOMAIN files THEN 0 ELSE 1)]_vars

\* A capture has overwritten the only screenshot: the file of its second
\* was there before (the status still shows the earlier save of that
\* second) and it now holds the current frame; no file was added.
C4_Witness ==
  /\ gui_pc = "setText"
  /\ DOMAIN files = {ScreenshotOf(timestamp)}
  /\ capture_frame_output = SavedAt(timestamp)
  /\ files[ScreenshotOf(timestamp)] = Png(current_frame)
  /\ timestamp = SecondOf(now)

\* C8: a capture made in a second whose screenshot already holds the
\* current frame (the state an earlier capture of that second left) writes
\* the same file name again and leaves the files under screenshots/ as they
\* were; when the status already reports that second it stays as it was.
C8_SameSecondIdempotent ==
  [][/\ (/\ SaveStep
         /\ ScreenshotOf(SecondOf(now)) \in DOMAIN files
         /\ files[ScreenshotOf(SecondOf(now))] = Png(current_frame))
        => files' = files
     /\ (/\ SavedTextStep
         /\ capture_frame_output = SavedAt(SecondOf(now)))
        => capture_frame_output' = capture_frame_output]_vars

\* The second capture of a second has saved, later in that second than the
\* second began: the file and the status are those the first one left.
C8_Witness ==
  /\ gui_pc = "setText"
  /\ now % TicksPerSecond # 0
  /\ capture_frame_output = SavedAt(SecondOf(now))
  /\ ScreenshotOf(SecondOf(now)) \in DOMAIN files
  /\ files[ScreenshotOf(SecondOf(now))] = Png(current_frame)
  /\ Cardinality(DOMAIN files) = 1

C5_FailureLoggedAndReturned ==
  /\ (gui_pc = "wait_for_service" /\ ~service_up) ~> (gui_pc = "idle")
  /\ [][/\ (gui_pc = "except" /\ gui_pc' # gui_pc)
          => gui_pc' = "idle" /\ "ServiceException" \in rosout'
        /\ (gui_pc \in {"wait_for_service", "call", "except"} /\ gui_pc' # gui_pc)
          => UNCHANGED <<current_frame, camera_feed, capture_frame_output,
                         dir_exists, files>>]_vars

\* The part of C5 about a call that raises, and about the other state.
C5_RaiseLoggedAndReturned ==
  [][/\ (gui_pc = "call" /\ gui_pc' = "except") => UNCHANGED rosout
     /\ (gui_pc = "except" /\ gui_pc' # gui_pc)
       => gui_pc' = "idle" /\ "ServiceException" \in rosout'
     /\ (gui_pc \in {"wait_for_service", "call", "except"} /\ gui_pc' # gui_pc)
       => UNCHANGED <<current_frame, camera_feed, capture_frame_output,
                      dir_exists, files>>]_vars

====
